---- MODULE Spec2Model ----
(***************************************************************************)
(* Model of the two browser scripts of I-Tech:                             *)
(*   static/js/flash.js  - the DOMContentLoaded handler that reveals and   *)
(*                         dismisses the '.alert' banners with timers;     *)
(*   static/js/admin.js  - resetPassword(userId, username), which prompts  *)
(*                         for a password and submits a hidden form.       *)
(* JavaScript runs each handler to completion on one thread, so every      *)
(* handler and every timer callback is one atomic action.                  *)
(* The scripts decide which timers exist and with which delays; the        *)
(* platform decides when and in which order their callbacks run. What      *)
(* setTimeout promises is modelled and nothing more: a callback runs once, *)
(* not before its delay has passed, and not before a pending timer that    *)
(* was registered earlier with a delay not greater than its own. Every     *)
(* order in which timers can come due (each registration of the loop has   *)
(* its own instant, and the loop may stall between two of them) is among   *)
(* the orders this admits.                                                 *)
(***************************************************************************)
EXTENDS Integers, Sequences, FiniteSets, TLC

\* ------------------------------------------------------------- bounds
\* The pages explored are the short ones, of at most MaxAlertsShort '.alert'
\* elements, and the long one, of MaxAlerts '.alert' elements (above 51, so
\* that show delays pass the hide delay).
MaxAlerts == 52
MaxAlertsShort == 2
\* Largest number of non-alert elements that precede the alerts.
MaxLead == 1
\* Largest number of '.alert' elements inserted while the page runs.
MaxLate == 1
\* Largest number of resetPassword calls when only resetPassword runs.
MaxCalls == 2
\* Largest number of resetPassword calls interleaved with the flash script.
MaxCallsInterleaved == 1

\* ------------------------------------------------- program constants
\* flash.js:5  setTimeout(..., i * 100)
StaggerMs == 100
\* flash.js:6  setTimeout(..., 5000)
HideDelayMs == 5000

\* ---------------------------------------------------------- inputs
UserIds == {7, 42}
Usernames == {"alice", "bob"}
\* What prompt() returns: null on cancel, otherwise the typed string.
Null == [kind |-> "null", str |-> ""]
Str(s) == [kind |-> "string", str |-> s]
PromptAnswers == {Null, Str(""), Str("0"), Str("hunter2")}

VARIABLES
    body,        \* children of document.body, in document order
    loaded,      \* DOMContentLoaded has been dispatched
    flashes,     \* the NodeList captured by the handler (positions in body)
    timers,      \* every setTimeout registration, in registration order
    reached,     \* how far the page clock was when the flash script last
                 \* returned (from its handler or from a callback): the
                 \* largest of the registered delays that had passed since
                 \* DOMContentLoaded was dispatched, in ms (0 before that)
    late,        \* number of elements inserted while the page runs
    calls        \* one record per resetPassword call, with its effects

vars == <<body, loaded, flashes, timers, reached, late, calls>>
\* What the flash script holds: its captured alerts, its timers and the
\* time of its latest run.
flashVars == <<loaded, flashes, timers, reached>>

\* ------------------------------------------------------------- DOM
Div(classes) ==
    [tag |-> "div", classList |-> classes, display |-> "",
     method |-> "", action |-> "", children |-> <<>>]

AlertDiv == Div({"alert", "alert-success"})
OtherDiv == Div({"card"})

\* Faulty variant: the selector matches every element.
MutQuerySelectorAllEverything(b, cls) ==
    [p \in 1..Len(b) |-> p]
\* document.querySelectorAll('.' + cls): the positions of the elements whose
\* class list holds cls, in document order.
QuerySelectorAll(b, cls) ==
    LET Matches(p) == cls \in b[p].classList
    IN  SelectSeq([p \in 1..Len(b) |-> p], Matches)

\* element.classList.add(c)
ClassListAdd(b, p, c) ==
    [b EXCEPT ![p].classList = @ \cup {c}]

\* element.style.display = v
SetDisplay(b, p, v) ==
    [b EXCEPT ![p].display = v]

\* ----------------------------------------------------------- timers
\* setTimeout(callback, delay) registers this timer; its handle is its
\* position among the registrations. The delay counts from the call, which
\* the DOMContentLoaded handler makes at or after the event's dispatch.
SetTimeout(kind, el, delay) ==
    [kind |-> kind, el |-> el, delay |-> delay, fired |-> FALSE]

\* Faulty variant: the stagger counts from 1.
MutShowDelayOffByOne(i) == (i + 1) * StaggerMs
\* flash.js:5  i * 100
ShowDelay(i) == i * StaggerMs

\* Faulty variants: the hide delay staggered like the show delay; the hide
\* delay one stagger short.
MutHideDelayStaggered(i) == HideDelayMs + i * StaggerMs
MutHideDelayShort(i) == HideDelayMs - StaggerMs
\* flash.js:6  5000, whatever the index
HideDelay(i) == HideDelayMs

\* flashes.forEach((flash, i) => {...}): for each index i
\* (0-based) the show timer and then the hide timer of fl[i] are registered,
\* so registrations 2i+1 and 2i+2 of the loop belong to index i.
ForEachFlash(fl, ts) ==
    ts \o [k \in 1..(2 * Len(fl)) |->
              LET i == (k - 1) \div 2
              IN  IF k % 2 = 1
                  THEN SetTimeout("show", fl[i + 1], ShowDelay(i))
                  ELSE SetTimeout("hide", fl[i + 1], HideDelay(i))]

\* The timers the event loop may run next. The platform runs the timer that
\* comes due first, and a timer comes due its delay after its own
\* setTimeout call: a timer registered earlier with a delay not greater
\* comes due no later and runs first; between any other two pending timers
\* the instants of the calls decide, and those are the platform's.
Runnable ==
    {h \in 1..Len(timers) :
        /\ ~timers[h].fired
        /\ \A k \in 1..(h - 1) :
               timers[h - k].fired \/ timers[h - k].delay > timers[h].delay}

\* Faulty variant: hiding also removes the 'show' class.
MutRunCallbackHideUnshows(b, tm) ==
    IF tm.kind = "show"
    THEN ClassListAdd(b, tm.el, "show")
    ELSE [SetDisplay(b, tm.el, "none") EXCEPT ![tm.el].classList = @ \ {"show"}]
\* flash.js:5-6  the callback of a timer, applied to the document.
RunCallback(b, tm) ==
    IF tm.kind = "show"
    THEN ClassListAdd(b, tm.el, "show")
    ELSE SetDisplay(b, tm.el, "none")

\* ---------------------------------------------------------- actions
\* The page as the parser left it: lead non-alert elements, then n alerts.
Page(lead, n) ==
    [p \in 1..(lead + n) |-> IF p <= lead THEN OtherDiv ELSE AlertDiv]

InitWith(leads, counts) ==
    /\ \E lead \in leads, n \in counts : body = Page(lead, n)
    /\ loaded = FALSE
    /\ flashes = <<>>
    /\ timers = <<>>
    /\ reached = 0
    /\ late = 0
    /\ calls = <<>>

\* Both scripts: a short page.
Init == InitWith(0..MaxLead, 0..MaxAlertsShort)
\* The flash script alone: a short page, or the long page with its alerts
\* after MaxLead other elements.
InitFlash == Init \/ InitWith({MaxLead}, {MaxAlerts})

\* flash.js:2-8  the DOMContentLoaded listener. The loop takes the time the
\* platform gives it: when it returns, any of the delays may have passed.
DOMContentLoaded ==
    /\ ~loaded
    /\ loaded' = TRUE
    /\ flashes' = QuerySelectorAll(body, "alert")
    /\ timers' = ForEachFlash(flashes', timers)
    /\ \E d \in {0} \cup {timers'[h].delay : h \in 1..Len(timers')} :
          reached' = d
    /\ UNCHANGED <<body, late, calls>>

\* The delays that the page clock is read against.
Delays == {timers[h].delay : h \in 1..Len(timers)}

\* The event loop runs the callback of a timer that may run next. The clock
\* is then not before the previous run of the script, and the timer's delay
\* has passed since its setTimeout call, hence since the event; the clock
\* may be any later (a busy event loop, an open prompt()). d is the largest
\* registered delay that has passed when the callback returns.
FireTimer ==
    /\ \E h \in Runnable, d \in Delays :
          /\ d >= reached
          /\ d >= timers[h].delay
          /\ reached' = d
          /\ body' = RunCallback(body, timers[h])
          /\ timers' = [timers EXCEPT ![h].fired = TRUE]
    /\ UNCHANGED <<loaded, flashes, late, calls>>

\* Some other script (or the parser) inserts one more '.alert' element.
AddAlert ==
    /\ late < MaxLate
    /\ body' = Append(body, AlertDiv)
    /\ late' = late + 1
    /\ UNCHANGED <<flashVars, calls>>

\* ------------------------------------------------------ resetPassword
\* String(n) for a non-negative integer, as a template literal renders it.
Digit(d) ==
    CASE d = 0 -> "0" [] d = 1 -> "1" [] d = 2 -> "2" [] d = 3 -> "3"
      [] d = 4 -> "4" [] d = 5 -> "5" [] d = 6 -> "6" [] d = 7 -> "7"
      [] d = 8 -> "8" [] d = 9 -> "9"

RECURSIVE NumberToString(_)
NumberToString(n) ==
    IF n < 10 THEN Digit(n)
    ELSE NumberToString(n \div 10) \o Digit(n % 10)

\* admin.js:3  `Enter new password for ${username}:` in the function's scope
PromptMessage(userId, username) ==
    "Enter new password for " \o username \o ":"

\* Faulty variants: the action built from the wrong parameter; the action
\* without the id.
MutFormActionUsername(userId, username) ==
    "/admin/reset_password/" \o username
MutFormActionNoId(userId, username) ==
    "/admin/reset_password/"
\* admin.js:7  `/admin/reset_password/${userId}` in the function's scope
FormAction(userId, username) ==
    "/admin/reset_password/" \o NumberToString(userId)

\* Faulty variants: a test against null only; no test at all.
MutTruthyNotNull(v) == v.kind = "string"
MutTruthyAlways(v) == TRUE
\* admin.js:4  if(newPass): JavaScript's ToBoolean of what prompt() returned
Truthy(v) == v.kind = "string" /\ v.str # ""

\* admin.js:8-11  the input element
HiddenInput(newPass) ==
    [tag |-> "input", type |-> "hidden", name |-> "new_password",
     value |-> newPass.str]

\* Faulty variant: the form carries the banners' class.
MutFormAlertClass(action, newPass) ==
    [tag |-> "form", classList |-> {"alert"}, display |-> "",
     method |-> "POST", action |-> action,
     children |-> <<HiddenInput(newPass)>>]
\* admin.js:5-12  the form element with its one child
Form(action, newPass) ==
    [tag |-> "form", classList |-> {}, display |-> "",
     method |-> "POST", action |-> action,
     children |-> <<HiddenInput(newPass)>>]

\* The effects of one call, in program order.
EffectsSubmit ==
    <<"prompt", "createElement form", "form.method=", "form.action=",
      "createElement input", "input.type=", "input.name=", "input.value=",
      "form.appendChild input", "body.appendChild form", "form.submit">>
EffectsNone == <<"prompt">>

\* admin.js:2-16  resetPassword(userId, username), prompt() returning answer.
\* prompt() blocks the event loop while it is open: no timer runs inside
\* the call.
ResetPassword(userId, username, answer) ==
    /\ LET message == PromptMessage(userId, username)
           newPass == answer
           form == Form(FormAction(userId, username), newPass)
           call == [userId |-> userId, username |-> username,
                    answer |-> answer, message |-> message]
       IN  IF Truthy(newPass)
           THEN /\ body' = Append(body, form)
                /\ calls' = Append(calls,
                       [call |-> call, effects |-> EffectsSubmit,
                        submitted |-> <<form>>])
           ELSE /\ body' = body
                /\ calls' = Append(calls,
                       [call |-> call, effects |-> EffectsNone,
                        submitted |-> <<>>])
    /\ UNCHANGED <<flashVars, late>>

\* A click on a reset button: at most maxCalls calls are explored.
ResetPasswordCall(maxCalls) ==
    /\ Len(calls) < maxCalls
    /\ \E userId \in UserIds, username \in Usernames,
          answer \in PromptAnswers :
            ResetPassword(userId, username, answer)

NextFlash == DOMContentLoaded \/ FireTimer \/ AddAlert
SpecFlash == InitFlash /\ [][NextFlash]_vars
\* The event loop dispatches DOMContentLoaded and runs every registered
\* timer: neither waits for ever.
FairSpecFlash ==
    /\ SpecFlash
    /\ WF_vars(DOMContentLoaded) /\ WF_vars(FireTimer)

\* resetPassword alone.
NextAdmin == ResetPasswordCall(MaxCalls)
SpecAdmin == Init /\ [][NextAdmin]_vars

\* Both scripts on one page, in any interleaving.
Next ==
    \/ DOMContentLoaded
    \/ FireTimer
    \/ AddAlert
    \/ ResetPasswordCall(MaxCallsInterleaved)
Spec == Init /\ [][Next]_vars

\* ------------------------------------------------------------ claims
\* Vocabulary of the claims.
Indices == 0..(Len(flashes) - 1)
Handles == 1..Len(timers)
Fired(h) == timers[h].fired
Pending == {h \in Handles : ~Fired(h)}
ShowHandles(p) == {h \in Handles : timers[h].kind = "show" /\ timers[h].el = p}
HideHandles(p) == {h \in Handles : timers[h].kind = "hide" /\ timers[h].el = p}
ShowHandle(i) == CHOOSE h \in ShowHandles(flashes[i + 1]) : TRUE
HideHandle(i) == CHOOSE h \in HideHandles(flashes[i + 1]) : TRUE
Shown(p) == "show" \in body[p].classList
Hidden(p) == body[p].display = "none"
AllTimersFired == loaded /\ \A h \in Handles : Fired(h)
\* The step is the running of timer h and of nothing else.
RanTimer(h) ==
    /\ ~timers[h].fired
    /\ timers' = [timers EXCEPT ![h].fired = TRUE]
\* Timer g precedes timer h in order of delay and, for equal delays, of
\* registration.
Precedes(g, h) ==
    \/ timers[g].delay < timers[h].delay
    \/ (timers[g].delay = timers[h].delay /\ g < h)
\* Up to now the timers have fired in order of delay and, for equal delays,
\* of registration, and h is the next in that order: the timers that have
\* run are exactly those that precede h.
NextInDelayOrder(h) ==
    /\ ~timers[h].fired
    /\ \A g \in Handles : g # h => (timers[g].fired <=> Precedes(g, h))
\* The step is the DOMContentLoaded handler.
LoadStep == ~loaded /\ loaded'
\* The step keeps the captured alerts and every timer registration (only
\* the mark of having run may change).
KeepsRegistrations ==
    /\ flashes' = flashes
    /\ Len(timers') = Len(timers)
    /\ \A h \in Handles :
          /\ timers'[h].kind = timers[h].kind
          /\ timers'[h].el = timers[h].el
          /\ timers'[h].delay = timers[h].delay

\* C1: the DOMContentLoaded handler registers for the alert of index i one
\* show timer, of delay i * 100 ms; an element gains the 'show' class only
\* in the step that runs that timer, and that step is not earlier than
\* i * 100 ms after the dispatch of the event.
C1_ShowAtStaggeredDelay ==
    [][ /\ loaded => KeepsRegistrations
        /\ LoadStep =>
            \A i \in 0..(Len(flashes') - 1) :
                \E h \in 1..Len(timers') :
                    /\ timers'[h].kind = "show"
                    /\ timers'[h].el = flashes'[i + 1]
                    /\ timers'[h].delay = i * 100
                    /\ \A g \in 1..Len(timers') :
                           (timers'[g].kind = "show"
                              /\ timers'[g].el = flashes'[i + 1]) => g = h
        /\ \A p \in 1..Len(body) :
            ("show" \notin body[p].classList /\ "show" \in body'[p].classList)
            => \E i \in Indices :
                 /\ flashes[i + 1] = p
                 /\ \E h \in Handles :
                        /\ timers[h].kind = "show"
                        /\ timers[h].el = p
                        /\ timers[h].delay = i * 100
                        /\ RanTimer(h)
                 /\ reached' >= i * 100
      ]_vars

\* C1 happens: the alert of index 3 was shown by its timer of delay 300 ms
\* between 300 and 400 ms after the event, and the alert of index 4 is
\* waiting.
C1_Witness ==
    /\ loaded /\ Len(flashes) >= 5
    /\ Shown(flashes[4]) /\ ~Shown(flashes[5])
    /\ timers[ShowHandle(3)].delay = 300
    /\ reached = 300

\* C2: every alert matched at DOMContentLoaded has one hide timer, of delay
\* 5000 ms counted from DOMContentLoaded whatever its index, and is
\* eventually hidden.
C2_HiddenAfterFixedDelay ==
    /\ [][ /\ loaded => KeepsRegistrations
           /\ LoadStep =>
                \A k \in 1..Len(flashes') :
                    LET hides == {h \in 1..Len(timers') :
                                    timers'[h].kind = "hide"
                                      /\ timers'[h].el = flashes'[k]}
                    IN  /\ Cardinality(hides) = 1
                        /\ \A h \in hides :
                               timers'[h].delay = 5000
          ]_vars
    /\ (loaded ~> (\A i \in Indices : Hidden(flashes[i + 1])))

\* C2 happens: every alert is hidden, the first ones after they were shown
\* and the one of index 51 before its show timer has run.
C2_Witness ==
    /\ loaded /\ Len(flashes) >= 52
    /\ \A i \in Indices : Hidden(flashes[i + 1])
    /\ Shown(flashes[1]) /\ ~Shown(flashes[52])

\* C6: no timer exists before DOMContentLoaded; its handler captures exactly
\* the elements that match '.alert' at that moment and registers one show
\* and one hide timer for each of them and nothing else; an element outside
\* that set, a later '.alert' included, keeps its class list and display.
C6_OnlyTheMatchedSet ==
    [][ /\ (~loaded') => timers' = <<>>
        /\ loaded => KeepsRegistrations
        /\ LoadStep =>
              /\ {flashes'[k] : k \in 1..Len(flashes')}
                   = {p \in 1..Len(body) : "alert" \in body[p].classList}
              /\ Len(flashes') = Cardinality({flashes'[k] : k \in 1..Len(flashes')})
              /\ Len(timers') = 2 * Len(flashes')
              /\ \A h \in 1..Len(timers') :
                     \E k \in 1..Len(flashes') : timers'[h].el = flashes'[k]
              /\ \A k \in 1..Len(flashes') :
                     /\ Cardinality({h \in 1..Len(timers') :
                            timers'[h].el = flashes'[k]
                              /\ timers'[h].kind = "show"}) = 1
                     /\ Cardinality({h \in 1..Len(timers') :
                            timers'[h].el = flashes'[k]
                              /\ timers'[h].kind = "hide"}) = 1
        /\ \A p \in 1..Len(body') :
              (\A k \in 1..Len(flashes') : flashes'[k] # p)
              => /\ "show" \notin body'[p].classList
                 /\ body'[p].display = ""
      ]_vars

\* C6 happens: every timer has run, and an '.alert' element that arrived
\* after DOMContentLoaded, next to a non-alert element, is untouched.
C6_Witness ==
    /\ AllTimersFired /\ Len(flashes) >= 2
    /\ \E p \in 1..Len(body) :
          /\ "alert" \in body[p].classList
          /\ \A k \in 1..Len(flashes) : flashes[k] # p
          /\ ~Shown(p) /\ ~Hidden(p)
    /\ \E p \in 1..Len(body) : "alert" \notin body[p].classList

\* C7: no step removes 'show' from an element or changes a display of
\* 'none'; a registered timer stays registered until it runs, and runs once;
\* when every timer has run, every alert carries 'show' and has display
\* 'none'.
C7_MonotonicEffects ==
    [][ /\ \A p \in 1..Len(body) :
              /\ "show" \in body[p].classList => "show" \in body'[p].classList
              /\ body[p].display = "none" => body'[p].display = "none"
        /\ \A h \in Handles :
              /\ h <= Len(timers')
              /\ timers'[h] = timers[h] \/ RanTimer(h)
        /\ (loaded' /\ \A h \in 1..Len(timers') : timers'[h].fired) =>
              \A k \in 1..Len(flashes') :
                  /\ "show" \in body'[flashes'[k]].classList
                  /\ body'[flashes'[k]].display = "none"
      ]_vars

\* C7 happens: more than fifty alerts, every timer has run, all are shown
\* and hidden.
C7_Witness ==
    /\ AllTimersFired /\ Len(flashes) >= 52
    /\ \A i \in Indices : Shown(flashes[i + 1]) /\ Hidden(flashes[i + 1])

\* C8: while the timers fire in order of delay and, for equal delays, of
\* registration, the show timer of the alert of index i runs before its hide
\* timer exactly when i <= 50: up to index 50 an alert being hidden has been
\* shown and an alert being shown is not hidden yet; above 50 an alert
\* being shown has been hidden and an alert being hidden was never shown.
C8_ShowBeforeHideUpTo50 ==
    [][ \A h \in Handles :
          (RanTimer(h) /\ NextInDelayOrder(h)) =>
            \A i \in Indices :
              flashes[i + 1] = timers[h].el =>
                /\ (timers[h].kind = "hide" /\ i <= 50)
                      => Shown(flashes[i + 1])
                /\ (timers[h].kind = "show" /\ i <= 50)
                      => ~Hidden(flashes[i + 1])
                /\ (timers[h].kind = "show" /\ i > 50)
                      => Hidden(flashes[i + 1])
                /\ (timers[h].kind = "hide" /\ i > 50)
                      => ~Shown(flashes[i + 1])
      ]_vars

\* C8 happens: the timers fired in order of delay up to the last one, the
\* show timer of index 51; the alert of index 50 is shown and hidden, the
\* alert of index 51 is hidden and was not shown.
C8_Witness ==
    /\ loaded /\ Len(flashes) >= 52
    /\ NextInDelayOrder(ShowHandle(51))
    /\ Shown(flashes[51]) /\ Hidden(flashes[51])
    /\ Hidden(flashes[52]) /\ ~Shown(flashes[52])

\* The step is one resetPassword call; LastCall' is its record.
CallStep == Len(calls') = Len(calls) + 1
LastCall == calls[Len(calls)]
Forms(b) == {p \in 1..Len(b) : b[p].tag = "form"}
\* How often effect e occurs in the effects es of a call.
Count(es, e) == Cardinality({k \in 1..Len(es) : es[k] = e})
First(es, e) == CHOOSE k \in 1..Len(es) : es[k] = e
\* The action attribute the claims expect for the user ids explored.
ExpectedAction(userId) ==
    IF userId = 7 THEN "/admin/reset_password/7"
    ELSE "/admin/reset_password/42"

\* C3: a call whose prompt returns a non-empty string p submits exactly one
\* form, appended last to document.body: method POST, action
\* '/admin/reset_password/' followed by userId, one child, a hidden input
\* named 'new_password' with value p; the prompt precedes the building and
\* the submission of the form.
C3_SubmitsOneResetForm ==
    [][ (CallStep /\ LastCall'.call.answer.kind = "string"
                  /\ LastCall'.call.answer.str # "") =>
          LET c == LastCall'
              f == body'[Len(body')]
          IN  /\ Len(body') = Len(body) + 1
              /\ \A p \in 1..Len(body) : body'[p] = body[p]
              /\ c.submitted = <<f>>
              /\ Count(c.effects, "form.submit") = 1
              /\ f.tag = "form"
              /\ f.method = "POST"
              /\ f.action = ExpectedAction(c.call.userId)
              /\ Len(f.children) = 1
              /\ f.children[1].tag = "input"
              /\ f.children[1].type = "hidden"
              /\ f.children[1].name = "new_password"
              /\ f.children[1].value = c.call.answer.str
              /\ Count(c.effects, "prompt") = 1
              /\ First(c.effects, "prompt") < First(c.effects, "createElement form")
              /\ First(c.effects, "createElement form")
                    < First(c.effects, "form.submit")
      ]_vars

\* C3 happens: user 42's password was reset to "hunter2" after an earlier
\* reset of user 7 to "0".
C3_Witness ==
    /\ Len(calls) = 2
    /\ calls[1].call.userId = 7 /\ calls[1].call.answer = Str("0")
    /\ calls[2].call.userId = 42 /\ calls[2].call.answer = Str("hunter2")
    /\ Len(calls[2].submitted) = 1
    /\ Cardinality(Forms(body)) = 2

\* C4: a call whose prompt is cancelled (returns null) only shows the
\* prompt: it creates no element, leaves document.body as it was and submits
\* nothing.
C4_CancelIsNoOp ==
    [][ (CallStep /\ LastCall'.call.answer.kind = "null") =>
          /\ body' = body
          /\ LastCall'.submitted = <<>>
          /\ LastCall'.effects = <<"prompt">>
          /\ UNCHANGED <<flashVars, late>>
      ]_vars

\* C4 happens: a cancelled call followed a call that had submitted a form.
C4_Witness ==
    /\ Len(calls) = 2
    /\ calls[1].submitted # <<>>
    /\ calls[2].call.answer = Null
    /\ Cardinality(Forms(body)) = 1

\* C9: a call whose prompt returns the empty string leaves the document as
\* a cancelled call does, and a call submits a form if and only if its
\* prompt returned a non-empty string.
C9_EmptyStringIsCancel ==
    [][ /\ (CallStep /\ LastCall'.call.answer.kind = "string"
                     /\ LastCall'.call.answer.str = "") =>
              /\ body' = body
              /\ LastCall'.submitted = <<>>
              /\ LastCall'.effects = <<"prompt">>
        /\ CallStep =>
              /\ (LastCall'.submitted # <<>>
                    <=> (LastCall'.call.answer.kind = "string"
                           /\ LastCall'.call.answer.str # ""))
              /\ (Len(body') > Len(body)
                    <=> (LastCall'.call.answer.kind = "string"
                           /\ LastCall'.call.answer.str # ""))
      ]_vars

\* C9 happens: a call answered with the empty string followed a call
\* answered "0", which had submitted a form.
C9_Witness ==
    /\ Len(calls) = 2
    /\ calls[1].call.answer = Str("0") /\ calls[1].submitted # <<>>
    /\ calls[2].call.answer = Str("") /\ calls[2].submitted = <<>>
    /\ Cardinality(Forms(body)) = 1

\* C10: two calls with the same userId and the same prompt answer submit the
\* same forms whatever their username arguments are; the username shows in
\* the prompt message only.
C10_UsernameOnlyInPrompt ==
    \A j \in 1..Len(calls), k \in 1..Len(calls) :
        /\ (calls[j].call.userId = calls[k].call.userId
              /\ calls[j].call.answer = calls[k].call.answer)
            => calls[j].submitted = calls[k].submitted
        /\ (calls[j].call.username # calls[k].call.username)
            => calls[j].call.message # calls[k].call.message

\* C10 happens: two calls for the same user and password, made with
\* different usernames, each submitted a form.
C10_Witness ==
    \E j \in 1..Len(calls), k \in 1..Len(calls) :
        /\ calls[j].call.userId = calls[k].call.userId
        /\ calls[j].call.answer = calls[k].call.answer
        /\ calls[j].call.username # calls[k].call.username
        /\ calls[j].submitted # <<>>
        /\ calls[k].submitted # <<>>

\* C5: a resetPassword call leaves every element already in the document,
\* the captured alerts and the timers as they are; the
\* DOMContentLoaded handler and the timers leave the calls, the number of
\* elements and every form as they are.
C5_ScriptsIndependent ==
    [][ /\ (calls' # calls) =>
              /\ UNCHANGED flashVars
              /\ \A p \in 1..Len(body) : body'[p] = body[p]
        /\ (flashVars' # flashVars) =>
              /\ calls' = calls
              /\ Len(body') = Len(body)
              /\ \A p \in Forms(body) : body'[p] = body[p]
              /\ Forms(body') = Forms(body)
      ]_vars

\* C5 happens: a form was submitted while some timers had run and others
\* were pending, and the alerts before and after the form are as the timers
\* left them.
C5_Witness ==
    /\ loaded /\ Len(flashes) >= 2
    /\ Len(calls) = 1 /\ calls[1].submitted # <<>>
    /\ Forms(body) # {}
    /\ Pending # {} /\ Pending # Handles
    /\ Shown(flashes[1]) /\ ~Hidden(flashes[1])
====
